---- MODULE Spec2Model ----
(***************************************************************************)
(* A model of streamlit_app.py (the "Huat Le Calculator" dashboard): one   *)
(* run of the script from the 1-month chart to the Fibonacci display,      *)
(* the data cleaning and moving averages of the main chart, and the two    *)
(* Fibonacci level functions.                                              *)
(*                                                                         *)
(* Numbers.  Prices are integers.  A Fibonacci ratio is held in millionths *)
(* (RatioScale), so a level is held in millionths of a price unit.  A mean *)
(* is held as the pair (sum, count).  Text is a sequence of one-character  *)
(* strings, so that split, strip, float() and `in` are computed.           *)
(***************************************************************************)
EXTENDS Integers, Sequences, FiniteSets, TLC

VARIABLES
    \* ---- the Fibonacci functions applied on their own (SpecFibo)
    fb_pc,                \* "call" before the call, "returned" after it
    fb_args,              \* the arguments of the call
    fb_result,            \* the dict the call returned
    \* ---- the preparation of the main chart's data on its own (SpecClean)
    cl_pc,                \* the next step of the preparation
    cl_raw,               \* the frame as fetched
    cl_data,              \* stock_data
    \* ---- the moving averages on their own (SpecRolling)
    ro_pc,                \* the next step
    ro_close,             \* stock_data['Close'] after dropna
    ro_windows,           \* <<sma_1, sma_2>>
    ro_columns,           \* the SMA<w> columns of stock_data: window -> series
    ro_values,            \* <<sma_1_values, sma_2_values>>
    \* ---- one run of the script (Spec)
    pc,                   \* the section the run is about to execute
    ticker,               \* the ticker text input
    unhandled,            \* the exception that ended the run, or NoException
    errors,               \* the st.error messages shown, in order
    warnings,             \* the st.warning messages shown, in order
    charts,               \* the st.plotly_chart calls made, in order
    high_price, low_price, pivot_price,      \* module-level names, Unbound until assigned
    stock_data,           \* the main chart's data frame
    sma_1, sma_2,         \* the two window inputs
    sma_columns,          \* the SMA<w> columns of stock_data: window -> series
    horizontal_lines, horizontal_colors, n_user_colors,
    horizontal_lines_traces,
    high_price_input, low_price_input, pivot_price_input, action, fib_method,
    compute_calls,        \* the calls of a compute function made by the run
    fib_levels_result,    \* Unbound, or the dict a compute function returned
    displayed             \* the level sets shown by the display section

fibo_vars == <<fb_pc, fb_args, fb_result>>
clean_vars == <<cl_pc, cl_raw, cl_data>>
rolling_vars == <<ro_pc, ro_close, ro_windows, ro_columns, ro_values>>
run_vars == <<pc, ticker, unhandled, errors, warnings, charts, high_price, low_price,
              pivot_price, stock_data, sma_1, sma_2, sma_columns,
              horizontal_lines, horizontal_colors, n_user_colors,
              horizontal_lines_traces, high_price_input, low_price_input,
              pivot_price_input, action, fib_method, compute_calls,
              fib_levels_result, displayed>>
vars == <<fibo_vars, clean_vars, rolling_vars, run_vars>>

-----------------------------------------------------------------------------
(* Python helpers *)

Abs(x) == IF x < 0 THEN -x ELSE x

\* needle in text, for two str values
Contains(text, needle) ==
    \E i \in 0..(Len(text) - Len(needle)) :
        \A j \in 1..Len(needle) : text[i + j] = needle[j]

\* A dict is the sequence of its items in insertion order.
DictHas(d, k) == \E i \in 1..Len(d) : d[i].key = k

\* d[k] = v: a new key goes to the end, an old key keeps its place.
DictSet(d, k, v) ==
    IF DictHas(d, k)
    THEN [i \in 1..Len(d) |-> IF d[i].key = k THEN [key |-> k, value |-> v] ELSE d[i]]
    ELSE Append(d, [key |-> k, value |-> v])

DictKeys(d) == [i \in 1..Len(d) |-> d[i].key]

DictGet(d, k) == d[CHOOSE i \in 1..Len(d) : d[i].key = k].value

-----------------------------------------------------------------------------
(* The Fibonacci level functions *)

\* One price unit, and the ratio 1, in millionths.
RatioScale == 1000 * 1000

\* The levels dict of compute_fibo_ret_ext; ratios in millionths.
RetExtLevels ==
    << [key |-> <<"R","E","T"," ","3","8","%">>,     value |-> 381966],
       [key |-> <<"R","E","T"," ","5","0","%">>,     value |-> 500000],
       [key |-> <<"R","E","T"," ","6","2","%">>,     value |-> 618034],
       [key |-> <<"R","E","T"," ","7","9","%">>,     value |-> 786151],
       [key |-> <<"R","E","T"," ","8","9","%">>,     value |-> 886652],
       [key |-> <<"E","X","T"," ","1","0","0","%">>, value |-> 1000000],
       [key |-> <<"E","X","T"," ","1","1","2","%">>, value |-> 1127838],
       [key |-> <<"E","X","T"," ","1","2","7","%">>, value |-> 1272020],
       [key |-> <<"E","X","T"," ","1","6","2","%">>, value |-> 1618034],
       [key |-> <<"E","X","T"," ","2","6","2","%">>, value |-> 2618034] >>

\* The levels dict of compute_fibo_pp_exp; ratios in millionths.
PpExpLevels ==
    << [key |-> <<"P","P"," ","6","2","%">>,         value |-> 618034],
       [key |-> <<"P","P"," ","7","9","%">>,         value |-> 786151],
       [key |-> <<"P","P"," ","8","9","%">>,         value |-> 886652],
       [key |-> <<"P","P"," ","1","0","0","%">>,     value |-> 1000000],
       [key |-> <<"P","P"," ","1","1","2","%">>,     value |-> 1127838],
       [key |-> <<"P","P"," ","1","2","7","%">>,     value |-> 1272020],
       [key |-> <<"P","P"," ","1","6","2","%">>,     value |-> 1618034],
       [key |-> <<"P","P"," ","2","6","2","%">>,     value |-> 2618034],
       [key |-> <<"E","X","P"," ","3","8","%">>,     value |-> 381966],
       [key |-> <<"E","X","P"," ","5","0","%">>,     value |-> 500000],
       [key |-> <<"E","X","P"," ","6","2","%">>,     value |-> 618034],
       [key |-> <<"E","X","P"," ","1","0","0","%">>, value |-> 1000000],
       [key |-> <<"E","X","P"," ","1","6","2","%">>, value |-> 1618034] >>

\* "RET" in key, "EXT" in key, "PP" in key, "EXP" in key
IsRetKey(key) == Contains(key, <<"R","E","T">>)
IsExtKey(key) == Contains(key, <<"E","X","T">>)

IsPPKeyLoose(key) == Contains(key, <<"P">>)
IsPPKey(key) == Contains(key, <<"P","P">>)

IsExpKeyTypo(key) == Contains(key, <<"E","X","T">>)
IsExpKey(key) == Contains(key, <<"E","X","P">>)

\* The four assignments of compute_fibo_ret_ext (ratio in millionths).
RetBuy(high, low, ratio) == high * RatioScale - Abs(high - low) * ratio

ExtBuyBeyond(high, low, ratio) == high * RatioScale + Abs(high - low) * ratio
ExtBuy(high, low, ratio) == high * RatioScale - Abs(high - low) * ratio

RetSell(high, low, ratio) == low * RatioScale + Abs(high - low) * ratio
ExtSell(high, low, ratio) == low * RatioScale + Abs(high - low) * ratio

\* One iteration of the loop of compute_fibo_ret_ext.
RetExtIter(results, key, ratio, high, low, act) ==
    IF act = "Buy" THEN
        IF IsRetKey(key) THEN DictSet(results, key, RetBuy(high, low, ratio))
        ELSE IF IsExtKey(key) THEN DictSet(results, key, ExtBuy(high, low, ratio))
        ELSE results
    ELSE IF act = "Sell" THEN
        IF IsRetKey(key) THEN DictSet(results, key, RetSell(high, low, ratio))
        ELSE IF IsExtKey(key) THEN DictSet(results, key, ExtSell(high, low, ratio))
        ELSE results
    ELSE results

RECURSIVE RetExtLoop(_, _, _, _, _)
RetExtLoop(i, results, high, low, act) ==
    IF i > Len(RetExtLevels) THEN results
    ELSE RetExtLoop(i + 1,
                    RetExtIter(results, RetExtLevels[i].key, RetExtLevels[i].value,
                               high, low, act),
                    high, low, act)

compute_fibo_ret_ext(high, low, act) == RetExtLoop(1, <<>>, high, low, act)

\* The four assignments of compute_fibo_pp_exp.
PPBuy(high, low, pivot, ratio) == pivot * RatioScale - Abs(high - low) * ratio
ExpBuy(high, low, pivot, ratio) == low * RatioScale - Abs(high - low) * ratio
PPSell(high, low, pivot, ratio) == pivot * RatioScale + Abs(high - low) * ratio
ExpSell(high, low, pivot, ratio) == high * RatioScale + Abs(high - low) * ratio

\* One iteration of the loop of compute_fibo_pp_exp.
PpExpIter(results, key, ratio, high, low, pivot, act) ==
    IF act = "Buy" THEN
        IF IsPPKey(key) THEN DictSet(results, key, PPBuy(high, low, pivot, ratio))
        ELSE IF IsExpKey(key) THEN DictSet(results, key, ExpBuy(high, low, pivot, ratio))
        ELSE results
    ELSE IF act = "Sell" THEN
        IF IsPPKey(key) THEN DictSet(results, key, PPSell(high, low, pivot, ratio))
        ELSE IF IsExpKey(key) THEN DictSet(results, key, ExpSell(high, low, pivot, ratio))
        ELSE results
    ELSE results

RECURSIVE PpExpLoop(_, _, _, _, _, _)
PpExpLoop(i, results, high, low, pivot, act) ==
    IF i > Len(PpExpLevels) THEN results
    ELSE PpExpLoop(i + 1,
                   PpExpIter(results, PpExpLevels[i].key, PpExpLevels[i].value,
                             high, low, pivot, act),
                   high, low, pivot, act)

compute_fibo_pp_exp(high, low, pivot, act) == PpExpLoop(1, <<>>, high, low, pivot, act)

\* The options of the two select boxes.
Actions == {"Buy", "Sell"}
Methods == {"Retracement & Extension", "Price Projection & Expansion"}

-----------------------------------------------------------------------------
(* pandas values: a cell is a number, NaN, or a str *)

Num(n) == [t |-> "num", v |-> n, s |-> <<>>]
NaN == [t |-> "nan", v |-> 0, s |-> <<>>]
Str(chars) == [t |-> "str", v |-> 0, s |-> chars]

Digits == <<"0","1","2","3","4","5","6","7","8","9">>
IsDigit(c) == \E d \in 1..Len(Digits) : Digits[d] = c
DigitValue(c) == (CHOOSE d \in 1..Len(Digits) : Digits[d] = c) - 1

RECURSIVE DecimalValue(_)
DecimalValue(chars) ==
    IF chars = <<>> THEN 0
    ELSE 10 * DecimalValue(SubSeq(chars, 1, Len(chars) - 1))
         + DigitValue(chars[Len(chars)])

\* Whether the text is a decimal numeral (the numerals the model's texts can hold).
IsNumeral(chars) == chars /= <<>> /\ \A i \in 1..Len(chars) : IsDigit(chars[i])

\* pd.to_numeric(..., errors='coerce') on one cell
ToNumeric(cell) ==
    IF cell.t = "str"
    THEN IF IsNumeral(cell.s) THEN Num(DecimalValue(cell.s)) ELSE NaN
    ELSE cell

required_columns == <<"Open", "High", "Low", "Close">>

\* A data frame is [multi, columns, rows]: whether its columns are a MultiIndex,
\* the set of (first-level) column names, and its rows in index order, each a
\* function from the column names to cells.
Frame(multi, columns, rows) == [multi |-> multi, columns |-> columns, rows |-> rows]

\* all(col in stock_data.columns for col in required_columns)
HasRequiredColumns(frame) ==
    \A k \in 1..Len(required_columns) : required_columns[k] \in frame.columns

\* pd.api.types.is_numeric_dtype(stock_data[col]): a column holding a str is of
\* dtype object
IsNumericDtype(frame, col) ==
    \A r \in 1..Len(frame.rows) : frame.rows[r][col].t /= "str"

\* stock_data[col] = pd.to_numeric(stock_data[col], errors='coerce')
CoerceColumn(frame, col) ==
    [frame EXCEPT !.rows =
        [r \in 1..Len(frame.rows) |->
            [frame.rows[r] EXCEPT ![col] = ToNumeric(frame.rows[r][col])]]]

\* The loop over required_columns: a column is converted only when its dtype is
\* not numeric.
RECURSIVE CoerceLoop(_, _)
CoerceLoop(k, frame) ==
    IF k > Len(required_columns) THEN frame
    ELSE CoerceLoop(k + 1,
                    IF IsNumericDtype(frame, required_columns[k]) THEN frame
                    ELSE CoerceColumn(frame, required_columns[k]))

CoerceRequired(frame) == CoerceLoop(1, frame)

RowIsComplete(row) ==
    \A k \in 1..Len(required_columns) : row[required_columns[k]].t /= "nan"

RowHasClose(row) == row["Close"].t /= "nan"

DropNaCloseOnly(frame) == [frame EXCEPT !.rows = SelectSeq(frame.rows, RowHasClose)]

\* stock_data.dropna(subset=required_columns, inplace=True)
DropNa(frame) == [frame EXCEPT !.rows = SelectSeq(frame.rows, RowIsComplete)]

\* stock_data['Close'] as the sequence of its numbers (after dropna)
CloseOf(frame) == [r \in 1..Len(frame.rows) |-> frame.rows[r]["Close"].v]

-----------------------------------------------------------------------------
(* Series.rolling(window).mean() *)

\* A moving-average value: the mean sum/count, or NaN.
MeanOf(sum, count) == [t |-> "num", num |-> sum, den |-> count]
NaNMean == [t |-> "nan", num |-> 0, den |-> 1]

\* min_periods defaults to the window.
MinPeriodsOne(window) == 1
MinPeriods(window) == window

\* The sliding window of the rolling mean: at position i the value close[i]
\* enters the sum, the value that left the window (close[i - window]) leaves it,
\* and the mean is defined once min_periods observations are in the window.
RECURSIVE RollLoop(_, _, _, _, _, _)
RollLoop(i, close, window, sum, nobs, out) ==
    IF i > Len(close) THEN out
    ELSE LET leaving == i > window
             sum2 == sum + close[i] - (IF leaving THEN close[i - window] ELSE 0)
             nobs2 == nobs + 1 - (IF leaving THEN 1 ELSE 0)
         IN  RollLoop(i + 1, close, window, sum2, nobs2,
                      Append(out, IF nobs2 >= MinPeriods(window)
                                  THEN MeanOf(sum2, nobs2) ELSE NaNMean))

RollingMean(close, window) == RollLoop(1, close, window, 0, 0, <<>>)

\* stock_data[name] = series, for the SMA<w> columns: window -> series
SetColumn(columns, window, series) ==
    [w \in (DOMAIN columns) \cup {window} |->
        IF w = window THEN series ELSE columns[w]]

NoColumns == [w \in {} |-> <<>>]

-----------------------------------------------------------------------------
(* Values of the names of one run *)

\* A module-level name that no statement has assigned yet.
Unbound == [t |-> "unbound", v |-> 0, s |-> <<>>]
IsBound(x) == x.t /= "unbound"

\* The name fib_levels_result: unbound, or bound to a dict.
UnboundDict == [t |-> "unbound", d |-> <<>>]
BoundDict(d) == [t |-> "dict", d |-> d]

\* A pandas Series where the script expects a number (a frame with MultiIndex
\* columns gives one for frame['High'].max()).
SeriesOf(n) == [t |-> "series", v |-> n, s |-> <<>>]

NoException == "none"

EmptyFrame == Frame(FALSE, {}, <<>>)

NoArgs == [fn |-> "", high |-> 0, low |-> 0, pivot |-> 0, action |-> ""]

FiboIdle == fb_pc = "idle" /\ fb_args = NoArgs /\ fb_result = <<>>

CleanIdle == cl_pc = "idle" /\ cl_raw = EmptyFrame /\ cl_data = EmptyFrame

RollingIdle ==
    /\ ro_pc = "idle" /\ ro_close = <<>> /\ ro_windows = <<>>
    /\ ro_columns = NoColumns /\ ro_values = <<>>

RunBlank ==
    /\ unhandled = NoException
    /\ errors = <<>> /\ warnings = <<>> /\ charts = <<>>
    /\ high_price = Unbound /\ low_price = Unbound /\ pivot_price = Unbound
    /\ stock_data = EmptyFrame
    /\ sma_1 = 0 /\ sma_2 = 0 /\ sma_columns = NoColumns
    /\ horizontal_lines = <<>> /\ horizontal_colors = <<>> /\ n_user_colors = 0
    /\ horizontal_lines_traces = <<>>
    /\ high_price_input = Unbound /\ low_price_input = Unbound
    /\ pivot_price_input = Unbound
    /\ action = "" /\ fib_method = ""
    /\ compute_calls = <<>>
    /\ fib_levels_result = UnboundDict
    /\ displayed = <<>>

RunIdle == pc = "idle" /\ ticker = <<>> /\ RunBlank

-----------------------------------------------------------------------------
(* SpecFibo: the two compute functions applied to bounded arguments *)

FiboPrices == {-50, 0, 1, 3, 50, 75, 100}

FiboInit ==
    /\ fb_pc = "call" /\ fb_args = NoArgs /\ fb_result = <<>>
    /\ CleanIdle /\ RollingIdle /\ RunIdle

CallRetExt ==
    \E high \in FiboPrices, low \in FiboPrices, act \in Actions :
        /\ fb_pc = "call" /\ fb_pc' = "returned"
        /\ fb_args' = [fn |-> "compute_fibo_ret_ext", high |-> high, low |-> low,
                       pivot |-> 0, action |-> act]
        /\ fb_result' = compute_fibo_ret_ext(high, low, act)
        /\ UNCHANGED <<clean_vars, rolling_vars, run_vars>>

CallPpExp ==
    \E high \in FiboPrices, low \in FiboPrices, pivot \in FiboPrices, act \in Actions :
        /\ fb_pc = "call" /\ fb_pc' = "returned"
        /\ fb_args' = [fn |-> "compute_fibo_pp_exp", high |-> high, low |-> low,
                       pivot |-> pivot, action |-> act]
        /\ fb_result' = compute_fibo_pp_exp(high, low, pivot, act)
        /\ UNCHANGED <<clean_vars, rolling_vars, run_vars>>

FiboNext == CallRetExt \/ CallPpExp

SpecFibo == FiboInit /\ [][FiboNext]_vars

-----------------------------------------------------------------------------
(* SpecClean: the coercion and dropna of the main chart on bounded frames *)

MaxRows == 3

RequiredSet == {required_columns[k] : k \in 1..Len(required_columns)}

\* The cells a fetched column may hold: a float column with a missing value, an
\* object column with a non-numeric or a numeric text.
OpenCells == {Num(1), Str(<<"x">>)}
HighCells == {Num(2), NaN}
LowCells == {Num(1), Str(<<"1">>)}
CloseCells == {Num(1), Num(2), Str(<<"x">>)}

CleanRows ==
    {[c \in RequiredSet |->
        CASE c = "Open" -> o [] c = "High" -> h [] c = "Low" -> l [] OTHER -> cl] :
     o \in OpenCells, h \in HighCells, l \in LowCells, cl \in CloseCells}

SeqsUpTo(S, n) == UNION {[1..k -> S] : k \in 0..n}

CleanFrames == {Frame(FALSE, RequiredSet, rows) : rows \in SeqsUpTo(CleanRows, MaxRows)}

CleanInit ==
    /\ cl_pc = "coerce"
    /\ cl_raw \in CleanFrames
    /\ cl_data = cl_raw
    /\ FiboIdle /\ RollingIdle /\ RunIdle

CleanCoerce ==
    /\ cl_pc = "coerce"
    /\ cl_data' = CoerceRequired(cl_data)
    /\ cl_pc' = "dropna"
    /\ UNCHANGED <<cl_raw, fibo_vars, rolling_vars, run_vars>>

CleanDropNa ==
    /\ cl_pc = "dropna"
    /\ cl_data' = DropNa(cl_data)
    /\ cl_pc' = "done"
    /\ UNCHANGED <<cl_raw, fibo_vars, rolling_vars, run_vars>>

CleanNext == CleanCoerce \/ CleanDropNa

SpecClean == CleanInit /\ [][CleanNext]_vars

-----------------------------------------------------------------------------
(* SpecRolling: the two moving averages on bounded cleaned close prices *)

MaxCloses == 4
MaxWindow == 3

ClosePrices == {1, 2, 4}
Windows == 1..MaxWindow

RollingInit ==
    /\ ro_pc = "sma_1"
    /\ ro_close \in SeqsUpTo(ClosePrices, MaxCloses)
    /\ ro_windows \in Windows \X Windows
    /\ ro_columns = NoColumns
    /\ ro_values = <<>>
    /\ FiboIdle /\ CleanIdle /\ RunIdle

RollingFirst ==
    /\ ro_pc = "sma_1"
    /\ ro_columns' = SetColumn(ro_columns, ro_windows[1],
                               RollingMean(ro_close, ro_windows[1]))
    /\ ro_pc' = "sma_2"
    /\ UNCHANGED <<ro_close, ro_windows, ro_values, fibo_vars, clean_vars, run_vars>>

RollingSecond ==
    /\ ro_pc = "sma_2"
    /\ ro_columns' = SetColumn(ro_columns, ro_windows[2],
                               RollingMean(ro_close, ro_windows[2]))
    /\ ro_pc' = "read"
    /\ UNCHANGED <<ro_close, ro_windows, ro_values, fibo_vars, clean_vars, run_vars>>

RollingRead ==
    /\ ro_pc = "read"
    /\ ro_values' = <<ro_columns[ro_windows[1]], ro_columns[ro_windows[2]]>>
    /\ ro_pc' = "done"
    /\ UNCHANGED <<ro_close, ro_windows, ro_columns, fibo_vars, clean_vars, run_vars>>

RollingNext == RollingFirst \/ RollingSecond \/ RollingRead

SpecRolling == RollingInit /\ [][RollingNext]_vars

-----------------------------------------------------------------------------
(* Text inputs of the sidebar *)

\* text.split(','): the fields between the commas; ''.split(',') is ['']
RECURSIVE SplitLoop(_, _, _, _)
SplitLoop(text, i, field, out) ==
    IF i > Len(text) THEN Append(out, field)
    ELSE IF text[i] = "," THEN SplitLoop(text, i + 1, <<>>, Append(out, field))
    ELSE SplitLoop(text, i + 1, Append(field, text[i]), out)

Split(text) == SplitLoop(text, 1, <<>>, <<>>)

\* val.strip()
RECURSIVE LStrip(_)
LStrip(chars) ==
    IF chars /= <<>> /\ Head(chars) = " " THEN LStrip(Tail(chars)) ELSE chars

RECURSIVE RStrip(_)
RStrip(chars) ==
    IF chars /= <<>> /\ chars[Len(chars)] = " "
    THEN RStrip(SubSeq(chars, 1, Len(chars) - 1)) ELSE chars

Strip(chars) == RStrip(LStrip(chars))

\* float(text) raises ValueError unless the text is a numeral.
FloatRaises(chars) == ~IsNumeral(chars)
FloatValue(chars) == DecimalValue(chars)

\* [float(val.strip()) for val in horizontal_lines_input.split(',')] under its
\* try: the list, or no list and the error message when one field raises.
ParseLines(text) ==
    IF text = <<>> THEN [lines |-> <<>>, invalid |-> FALSE]
    ELSE LET fields == Split(text)
             stripped == [k \in 1..Len(fields) |-> Strip(fields[k])]
         IN  IF \E k \in 1..Len(stripped) : FloatRaises(stripped[k])
             THEN [lines |-> <<>>, invalid |-> TRUE]
             ELSE [lines |-> [k \in 1..Len(stripped) |-> FloatValue(stripped[k])],
                   invalid |-> FALSE]

\* [val.strip() for val in horizontal_line_colors_input.split(',')]
ParseColors(text) ==
    IF text = <<>> THEN <<>>
    ELSE LET fields == Split(text)
         IN  [k \in 1..Len(fields) |-> Strip(fields[k])]

default_colors ==
    << <<"#","1","7","7","e","8","9">>, <<"#","0","8","4","c","6","1">>,
       <<"#","d","b","3","a","3","4">>, <<"#","f","f","c","8","5","7">>,
       <<"#","3","2","3","0","3","1">> >>

\* The fill condition of the cycling loop.
NeedsDefaultStrict(i, colors) == i > Len(colors)
NeedsDefault(i, colors) == i >= Len(colors)

\* for i in range(len(horizontal_lines)): append a default color for every
\* index past the end of the list (i counts from 0).
RECURSIVE FillLoop(_, _, _)
FillLoop(i, n_lines, colors) ==
    IF i >= n_lines THEN colors
    ELSE FillLoop(i + 1, n_lines,
                  IF NeedsDefault(i, colors)
                  THEN Append(colors, default_colors[(i % Len(default_colors)) + 1])
                  ELSE colors)

\* The warning and the cycling of lines 184-188.
CycleColors(lines, colors) ==
    IF Len(colors) /= Len(lines)
    THEN [warned |-> TRUE, colors |-> FillLoop(0, Len(lines), colors)]
    ELSE [warned |-> FALSE, colors |-> colors]

\* The loop that builds the horizontal-line traces.  It raises IndexError when
\* horizontal_colors[idx] is past the end, IndexError when dates[0] is read of
\* a frame without rows, and ValueError when the charting library rejects a
\* color the user typed (rejected: whether it does; the default colors are
\* valid).
RECURSIVE TraceLoop(_, _, _, _, _, _, _)
TraceLoop(idx, lines, colors, n_user, n_rows, rejected, out) ==
    IF idx >= Len(lines) THEN [traces |-> out, exc |-> NoException]
    ELSE IF idx >= Len(colors) THEN [traces |-> out, exc |-> "IndexError: colors"]
    ELSE IF n_rows = 0 THEN [traces |-> out, exc |-> "IndexError: dates"]
    ELSE IF rejected /\ idx < n_user THEN [traces |-> out, exc |-> "ValueError: color"]
    ELSE TraceLoop(idx + 1, lines, colors, n_user, n_rows, rejected,
                   Append(out, [y |-> lines[idx + 1], color |-> colors[idx + 1]]))

BuildTraces(lines, colors, n_user, n_rows, rejected) ==
    TraceLoop(0, lines, colors, n_user, n_rows, rejected, <<>>)

\* ','.join(fields)
RECURSIVE Join(_)
Join(fields) ==
    IF fields = <<>> THEN <<>>
    ELSE IF Len(fields) = 1 THEN fields[1]
    ELSE fields[1] \o <<",">> \o Join(Tail(fields))

-----------------------------------------------------------------------------
(* Spec: one run of the script *)

MaxRunRows == 2
MaxRunWindow == 2
MaxLines == 6
MaxColors == 2

\* The messages of the st.error and st.warning calls; exc names the exception a
\* handler reports.
ErrNoMonthData == [msg |-> "No data available for the last 1 month.", exc |-> NoException]
ErrInvalidLines ==
    [msg |-> "Invalid input for horizontal line values. Please enter valid numbers separated by commas.",
     exc |-> NoException]
ErrNoColumns ==
    [msg |-> "Data does not contain the necessary columns (Open, High, Low, Close) or is empty.",
     exc |-> NoException]
ErrFetching(exc) == [msg |-> "Error fetching data for", exc |-> exc]
WarnColors ==
    "The number of colors doesn't match the number of lines. Defaulting to the first 5 colors and cycling."

Tickers == {<<>>, <<"^","D","J","I">>}

\* Rows of fetched data.  The prices are even, so that the pivot (the mean of a
\* high and a low) is a whole number.
Row(o, h, l, c) ==
    [col \in RequiredSet |->
        CASE col = "Open" -> o [] col = "High" -> h [] col = "Low" -> l [] OTHER -> c]

MonthRows == {Row(Num(2), Num(4), Num(2), Num(2)), Row(Num(4), Num(6), Num(2), Num(4))}
RunRows == {Row(Num(2), Num(4), Num(2), Num(4)), Row(Num(2), Num(4), Num(2), Str(<<"x">>))}

\* What yf.download may return: frames with the four columns (flat or MultiIndex),
\* and a frame that lacks Close.
NoCloseRow == [col \in {"Open", "High", "Low"} |-> Num(2)]
RunFrames ==
    {Frame(m, RequiredSet, rows) : m \in BOOLEAN, rows \in SeqsUpTo(RunRows, MaxRunRows)}
    \cup {Frame(FALSE, {"Open", "High", "Low"}, <<NoCloseRow>>)}
MonthFrames ==
    {Frame(m, RequiredSet, rows) : m \in BOOLEAN, rows \in SeqsUpTo(MonthRows, MaxRunRows)}

\* The outcomes of fetch_data: it raises, or returns a frame.
FetchRaises == [raises |-> TRUE, frame |-> EmptyFrame]
FetchReturns(frame) == [raises |-> FALSE, frame |-> frame]
MonthFetches == {FetchRaises} \cup {FetchReturns(f) : f \in MonthFrames}
MainFetches == {FetchRaises} \cup {FetchReturns(f) : f \in RunFrames}

\* The texts of the two horizontal-line inputs.
LineFields == {<<" ", "7">>, <<"x">>}
ColorFields == {<<" ", "r", "e", "d">>}
LineInputs == {Join(fs) : fs \in SeqsUpTo(LineFields, MaxLines)}
ColorInputs == {Join(fs) : fs \in SeqsUpTo(ColorFields, MaxColors)}

\* one_month_data['High'].max(), one_month_data['Low'].min()
ColumnMax(frame, col) ==
    CHOOSE m \in {frame.rows[r][col].v : r \in 1..Len(frame.rows)} :
        \A r \in 1..Len(frame.rows) : frame.rows[r][col].v <= m
ColumnMin(frame, col) ==
    CHOOSE m \in {frame.rows[r][col].v : r \in 1..Len(frame.rows)} :
        \A r \in 1..Len(frame.rows) : frame.rows[r][col].v >= m

Init ==
    /\ pc = "one_month"
    /\ ticker \in Tickers
    /\ RunBlank
    /\ FiboIdle /\ CleanIdle /\ RollingIdle

\* Lines 51-97.  The fetch is outside any try.  With MultiIndex columns
\* high_price is a Series and the f-string of line 94 raises TypeError; whether
\* the chart was requested before that is left open.
OneMonthChart ==
    /\ pc = "one_month"
    /\ \E fetch \in MonthFetches, charted \in BOOLEAN :
        LET data == fetch.frame
            hi == ColumnMax(data, "High")
            lo == ColumnMin(data, "Low")
            chart == [chart |-> "one_month", rows |-> Len(data.rows),
                      sma_1_values |-> <<>>, sma_2_values |-> <<>>, lines |-> <<>>]
        IN
        IF fetch.raises THEN
            /\ ~charted
            /\ pc' = "crashed"
            /\ unhandled' = "fetch_data raised (line 54)"
            /\ UNCHANGED <<errors, charts, high_price, low_price, pivot_price>>
        ELSE IF data.rows = <<>> THEN
            /\ ~charted
            /\ errors' = Append(errors, ErrNoMonthData)
            /\ pc' = "main_chart"
            /\ UNCHANGED <<unhandled, charts, high_price, low_price, pivot_price>>
        ELSE IF data.multi THEN
            /\ charts' = IF charted THEN Append(charts, chart) ELSE charts
            /\ high_price' = SeriesOf(hi)
            /\ low_price' = SeriesOf(lo)
            /\ pivot_price' = SeriesOf((hi + lo) \div 2)
            /\ pc' = "crashed"
            /\ unhandled' = "TypeError (line 94)"
            /\ UNCHANGED errors
        ELSE
            /\ charted
            /\ charts' = Append(charts, chart)
            /\ high_price' = Num(hi)
            /\ low_price' = Num(lo)
            /\ pivot_price' = Num((hi + lo) \div 2)
            /\ pc' = "main_chart"
            /\ UNCHANGED <<unhandled, errors>>
    /\ UNCHANGED <<ticker, warnings, stock_data, sma_1, sma_2, sma_columns,
                   horizontal_lines, horizontal_colors, n_user_colors,
                   horizontal_lines_traces, high_price_input, low_price_input,
                   pivot_price_input, action, fib_method, compute_calls,
                   fib_levels_result, displayed>>
    /\ UNCHANGED <<fibo_vars, clean_vars, rolling_vars>>

\* Lines 104-120 and 218-222: the ticker test, the fetch under the try, the
\* flattening of MultiIndex columns and the test for the required columns.
MainFetch ==
    /\ pc = "main_chart"
    /\ \E fetch \in MainFetches :
        LET flat == [fetch.frame EXCEPT !.multi = FALSE] IN
        IF ticker = <<>> THEN
            /\ fetch = FetchRaises
            /\ pc' = "fibo_inputs"
            /\ UNCHANGED <<errors, stock_data>>
        ELSE IF fetch.raises THEN
            /\ errors' = Append(errors, ErrFetching("fetch_data raised"))
            /\ pc' = "fibo_inputs"
            /\ UNCHANGED stock_data
        ELSE IF ~HasRequiredColumns(flat) THEN
            /\ errors' = Append(errors, ErrNoColumns)
            /\ stock_data' = flat
            /\ pc' = "fibo_inputs"
        ELSE
            /\ stock_data' = flat
            /\ pc' = "main_clean"
            /\ UNCHANGED errors
    /\ UNCHANGED <<ticker, unhandled, warnings, charts, high_price, low_price,
                   pivot_price, sma_1, sma_2, sma_columns,
                   horizontal_lines, horizontal_colors, n_user_colors,
                   horizontal_lines_traces, high_price_input, low_price_input,
                   pivot_price_input, action, fib_method, compute_calls,
                   fib_levels_result, displayed>>
    /\ UNCHANGED <<fibo_vars, clean_vars, rolling_vars>>

\* Lines 122-133: the coercion loop and dropna.
MainClean ==
    /\ pc = "main_clean"
    /\ stock_data' = DropNa(CoerceRequired(stock_data))
    /\ pc' = "main_sma"
    /\ UNCHANGED <<ticker, unhandled, errors, warnings, charts, high_price, low_price,
                   pivot_price, sma_1, sma_2, sma_columns,
                   horizontal_lines, horizontal_colors, n_user_colors,
                   horizontal_lines_traces, high_price_input, low_price_input,
                   pivot_price_input, action, fib_method, compute_calls,
                   fib_levels_result, displayed>>
    /\ UNCHANGED <<fibo_vars, clean_vars, rolling_vars>>

\* Lines 135-166: the two SMA columns (one column when the windows are equal)
\* and the series read back from them.
MainSma ==
    /\ pc = "main_sma"
    /\ \E w1 \in 1..MaxRunWindow, w2 \in 1..MaxRunWindow :
        /\ sma_1' = w1
        /\ sma_2' = w2
        /\ sma_columns' =
              SetColumn(SetColumn(sma_columns, w1, RollingMean(CloseOf(stock_data), w1)),
                        w2, RollingMean(CloseOf(stock_data), w2))
    /\ pc' = "main_lines"
    /\ UNCHANGED <<ticker, unhandled, errors, warnings, charts, high_price, low_price,
                   pivot_price, stock_data,
                   horizontal_lines, horizontal_colors, n_user_colors,
                   horizontal_lines_traces, high_price_input, low_price_input,
                   pivot_price_input, action, fib_method, compute_calls,
                   fib_levels_result, displayed>>
    /\ UNCHANGED <<fibo_vars, clean_vars, rolling_vars>>

\* Lines 168-188: the two inputs are parsed, a mismatch of the counts is warned
\* of and the missing colors are taken from the default palette.
MainLines ==
    /\ pc = "main_lines"
    /\ \E lines_input \in LineInputs, colors_input \in ColorInputs :
        LET parsed == ParseLines(lines_input)
            user == ParseColors(colors_input)
            cycled == CycleColors(parsed.lines, user)
        IN  /\ horizontal_lines' = parsed.lines
            /\ errors' = IF parsed.invalid THEN Append(errors, ErrInvalidLines) ELSE errors
            /\ n_user_colors' = Len(user)
            /\ horizontal_colors' = cycled.colors
            /\ warnings' = IF cycled.warned THEN Append(warnings, WarnColors) ELSE warnings
    /\ pc' = "main_traces"
    /\ UNCHANGED <<ticker, unhandled, charts, high_price, low_price,
                   pivot_price, stock_data, sma_1, sma_2, sma_columns,
                   horizontal_lines_traces, high_price_input, low_price_input,
                   pivot_price_input, action, fib_method, compute_calls,
                   fib_levels_result, displayed>>
    /\ UNCHANGED <<fibo_vars, clean_vars, rolling_vars>>

\* Lines 190-202 and 221-222: the traces of the horizontal lines; an exception
\* ends the try block in its handler.
MainTraces ==
    /\ pc = "main_traces"
    /\ \E rejected \in BOOLEAN :
        LET built == BuildTraces(horizontal_lines, horizontal_colors, n_user_colors,
                                 Len(stock_data.rows), rejected)
        IN  /\ rejected => built.exc = "ValueError: color"
            /\ horizontal_lines_traces' = built.traces
            /\ IF built.exc = NoException
               THEN pc' = "main_plot" /\ UNCHANGED errors
               ELSE pc' = "fibo_inputs" /\ errors' = Append(errors, ErrFetching(built.exc))
    /\ UNCHANGED <<ticker, unhandled, warnings, charts, high_price, low_price,
                   pivot_price, stock_data, sma_1, sma_2, sma_columns,
                   horizontal_lines, horizontal_colors, n_user_colors,
                   high_price_input, low_price_input,
                   pivot_price_input, action, fib_method, compute_calls,
                   fib_levels_result, displayed>>
    /\ UNCHANGED <<fibo_vars, clean_vars, rolling_vars>>

\* Lines 204-216: the figure of the candlesticks, the two moving averages and
\* the horizontal lines is handed to st.plotly_chart.
MainPlot ==
    /\ pc = "main_plot"
    /\ charts' = Append(charts, [chart |-> "main", rows |-> Len(stock_data.rows),
                                 sma_1_values |-> sma_columns[sma_1],
                                 sma_2_values |-> sma_columns[sma_2],
                                 lines |-> horizontal_lines_traces])
    /\ pc' = "fibo_inputs"
    /\ UNCHANGED <<ticker, unhandled, errors, warnings, high_price, low_price,
                   pivot_price, stock_data, sma_1, sma_2, sma_columns,
                   horizontal_lines, horizontal_colors, n_user_colors,
                   horizontal_lines_traces, high_price_input, low_price_input,
                   pivot_price_input, action, fib_method, compute_calls,
                   fib_levels_result, displayed>>
    /\ UNCHANGED <<fibo_vars, clean_vars, rolling_vars>>

\* What the user may type over a pre-filled price.
UserPrices == {-2, 0}

\* Lines 230-246: the three number inputs are pre-filled with low_price,
\* high_price and pivot_price; reading the first of these names while it is
\* unbound raises NameError.  The user may replace each value.
FiboInputs ==
    /\ pc = "fibo_inputs"
    /\ IF ~IsBound(low_price) THEN
            /\ pc' = "crashed"
            /\ unhandled' = "NameError: low_price (line 234)"
            /\ UNCHANGED <<low_price_input, high_price_input, pivot_price_input,
                           action, fib_method>>
       ELSE
            /\ low_price_input' \in {Num(x) : x \in {low_price.v} \cup UserPrices}
            /\ high_price_input' \in {Num(x) : x \in {high_price.v} \cup UserPrices}
            /\ pivot_price_input' \in {Num(x) : x \in {pivot_price.v} \cup UserPrices}
            /\ action' \in Actions
            /\ fib_method' \in Methods
            /\ pc' = "fibo_compute"
            /\ UNCHANGED unhandled
    /\ UNCHANGED <<ticker, errors, warnings, charts, high_price, low_price,
                   pivot_price, stock_data, sma_1, sma_2, sma_columns,
                   horizontal_lines, horizontal_colors, n_user_colors,
                   horizontal_lines_traces, compute_calls,
                   fib_levels_result, displayed>>
    /\ UNCHANGED <<fibo_vars, clean_vars, rolling_vars>>

\* The guard of line 308.
InputsPositive(high, low) == high > 0 /\ low > 0

\* Lines 308-314: under the guard, the compute function of the chosen method is
\* called and its result bound to fib_levels_result.
FiboCompute ==
    /\ pc = "fibo_compute"
    /\ IF InputsPositive(high_price_input.v, low_price_input.v) THEN
            IF fib_method = "Retracement & Extension" THEN
                /\ fib_levels_result' =
                      BoundDict(compute_fibo_ret_ext(high_price_input.v,
                                                     low_price_input.v, action))
                /\ compute_calls' =
                      Append(compute_calls,
                             [fn |-> "compute_fibo_ret_ext", high |-> high_price_input.v,
                              low |-> low_price_input.v])
            ELSE IF fib_method = "Price Projection & Expansion" THEN
                /\ fib_levels_result' =
                      BoundDict(compute_fibo_pp_exp(high_price_input.v, low_price_input.v,
                                                    pivot_price_input.v, action))
                /\ compute_calls' =
                      Append(compute_calls,
                             [fn |-> "compute_fibo_pp_exp", high |-> high_price_input.v,
                              low |-> low_price_input.v])
            ELSE UNCHANGED <<fib_levels_result, compute_calls>>
       ELSE UNCHANGED <<fib_levels_result, compute_calls>>
    /\ pc' = "fibo_display"
    /\ UNCHANGED <<ticker, unhandled, errors, warnings, charts, high_price, low_price,
                   pivot_price, stock_data, sma_1, sma_2, sma_columns,
                   horizontal_lines, horizontal_colors, n_user_colors,
                   horizontal_lines_traces, high_price_input, low_price_input,
                   pivot_price_input, action, fib_method, displayed>>
    /\ UNCHANGED <<fibo_vars, clean_vars, rolling_vars>>

\* f"{value:.3f}": a level in millionths rounded to thousandths.
Format3(value) == (value + 500) \div 1000

\* Lines 316-333: the values of fib_levels_result as one line and as a table;
\* reading the name while it is unbound raises NameError.
FiboDisplay ==
    /\ pc = "fibo_display"
    /\ IF fib_levels_result.t = "unbound" THEN
            /\ pc' = "crashed"
            /\ unhandled' = "NameError: fib_levels_result (line 323)"
            /\ UNCHANGED displayed
       ELSE
            /\ displayed' =
                  Append(displayed,
                         [line |-> [i \in 1..Len(fib_levels_result.d) |->
                                        Format3(fib_levels_result.d[i].value)],
                          labels |-> DictKeys(fib_levels_result.d)])
            /\ pc' = "done"
            /\ UNCHANGED unhandled
    /\ UNCHANGED <<ticker, errors, warnings, charts, high_price, low_price,
                   pivot_price, stock_data, sma_1, sma_2, sma_columns,
                   horizontal_lines, horizontal_colors, n_user_colors,
                   horizontal_lines_traces, high_price_input, low_price_input,
                   pivot_price_input, action, fib_method, compute_calls,
                   fib_levels_result>>
    /\ UNCHANGED <<fibo_vars, clean_vars, rolling_vars>>

Next ==
    \/ OneMonthChart
    \/ MainFetch
    \/ MainClean
    \/ MainSma
    \/ MainLines
    \/ MainTraces
    \/ MainPlot
    \/ FiboInputs
    \/ FiboCompute
    \/ FiboDisplay

Spec == Init /\ [][Next]_vars

-----------------------------------------------------------------------------
(* The Fibonacci claims, under SpecFibo *)

Label_RET50 == <<"R","E","T"," ","5","0","%">>
Label_EXT100 == <<"E","X","T"," ","1","0","0","%">>
Label_PP100 == <<"P","P"," ","1","0","0","%">>
Label_EXP50 == <<"E","X","P"," ","5","0","%">>

Range(high, low) == IF high >= low THEN high - low ELSE low - high

\* C1: compute_fibo_ret_ext stores, under each of the ten labels of its fixed
\* list, high - |high-low|*ratio for Buy and low + |high-low|*ratio for Sell,
\* RET and EXT alike and also when high < low; Buy, 100, 50 gives
\* EXT 100% = 50 and RET 50% = 75.
C1_RetExtLevels ==
    (fb_pc = "returned" /\ fb_args.fn = "compute_fibo_ret_ext") =>
        LET high == fb_args.high
            low == fb_args.low
        IN  /\ Len(RetExtLevels) = 10
            /\ \A i \in 1..Len(RetExtLevels) :
                LET label == RetExtLevels[i].key
                    ratio == RetExtLevels[i].value
                IN  /\ DictHas(fb_result, label)
                    /\ fb_args.action = "Buy" =>
                         DictGet(fb_result, label)
                            = high * RatioScale - Range(high, low) * ratio
                    /\ fb_args.action = "Sell" =>
                         DictGet(fb_result, label)
                            = low * RatioScale + Range(high, low) * ratio
            /\ (fb_args.action = "Buy" /\ high = 100 /\ low = 50) =>
                  /\ DictGet(fb_result, Label_EXT100) = 50 * RatioScale
                  /\ DictGet(fb_result, Label_RET50) = 75 * RatioScale

C1_Witness ==
    /\ fb_pc = "returned" /\ fb_args.fn = "compute_fibo_ret_ext"
    /\ fb_args.action = "Buy" /\ fb_args.high = 100 /\ fb_args.low = 50
    /\ DictGet(fb_result, Label_EXT100) = 50 * RatioScale
    /\ DictGet(fb_result, Label_RET50) = 75 * RatioScale

\* C2: compute_fibo_pp_exp stores, under every PP label, pivot -/+ |high-low|*ratio
\* (Buy/Sell) and, under every EXP label, low - |high-low|*ratio for Buy and
\* high + |high-low|*ratio for Sell; Buy, 100, 50, pivot 75 gives PP 100% = 25
\* and EXP 50% = 25.
C2_PpExpLevels ==
    (fb_pc = "returned" /\ fb_args.fn = "compute_fibo_pp_exp") =>
        LET high == fb_args.high
            low == fb_args.low
            pivot == fb_args.pivot
            buy == fb_args.action = "Buy"
        IN  /\ \A i \in 1..Len(PpExpLevels) :
                LET label == PpExpLevels[i].key
                    ratio == PpExpLevels[i].value
                    base == IF label[1] = "P" THEN pivot
                            ELSE IF buy THEN low ELSE high
                IN  /\ label[1] \in {"P", "E"}
                    /\ DictHas(fb_result, label)
                    /\ DictGet(fb_result, label)
                         = IF buy THEN base * RatioScale - Range(high, low) * ratio
                                  ELSE base * RatioScale + Range(high, low) * ratio
            /\ (buy /\ high = 100 /\ low = 50 /\ pivot = 75) =>
                  /\ DictGet(fb_result, Label_PP100) = 25 * RatioScale
                  /\ DictGet(fb_result, Label_EXP50) = 25 * RatioScale

C2_Witness ==
    /\ fb_pc = "returned" /\ fb_args.fn = "compute_fibo_pp_exp"
    /\ fb_args.action = "Buy" /\ fb_args.high = 100 /\ fb_args.low = 50
    /\ fb_args.pivot = 75
    /\ DictGet(fb_result, Label_PP100) = 25 * RatioScale
    /\ DictGet(fb_result, Label_EXP50) = 25 * RatioScale

\* C3: for both functions and either action the returned dict holds every label
\* of the function's fixed list exactly once (10 and 13 labels), in the order of
\* the list, whatever the values.
C3_LabelsInListOrder ==
    fb_pc = "returned" =>
        LET fixed == IF fb_args.fn = "compute_fibo_ret_ext"
                     THEN RetExtLevels ELSE PpExpLevels
        IN  /\ Len(fb_result)
                 = (IF fb_args.fn = "compute_fibo_ret_ext" THEN 10 ELSE 13)
            /\ \A i \in 1..Len(fb_result) : fb_result[i].key = fixed[i].key
            /\ \A i \in 1..Len(fb_result), j \in 1..Len(fb_result) :
                  fb_result[i].key = fb_result[j].key => i = j

\* A returned dict of 13 labels whose values are not in ascending order.
C3_Witness ==
    /\ fb_pc = "returned" /\ fb_args.fn = "compute_fibo_pp_exp"
    /\ fb_args.action = "Sell"
    /\ Len(fb_result) = 13
    /\ \E i \in 1..(Len(fb_result) - 1) : fb_result[i].value > fb_result[i + 1].value

-----------------------------------------------------------------------------
(* The data-preparation claims, under SpecClean and SpecRolling *)

C7_Convertible(cell) == cell.t = "num" \/ (cell.t = "str" /\ IsNumeral(cell.s))
C7_Value(cell) == IF cell.t = "num" THEN cell.v ELSE DecimalValue(cell.s)
C7_RowConvertible(row) == \A c \in RequiredSet : C7_Convertible(row[c])
C7_Kept(frame) == SelectSeq(frame.rows, C7_RowConvertible)

\* C7: after the coercion every cell of the four fields is a number or missing,
\* missing exactly where the fetched value was missing or not convertible; the
\* cleaned frame holds exactly the fetched records whose four fields are all
\* convertible, in their order and with their (numeric) values; a frame whose
\* only defect is one non-numeric close loses exactly that record.
C7_CleanedRecords ==
    /\ cl_pc \in {"dropna", "done"} =>
          \A r \in 1..Len(cl_data.rows), c \in RequiredSet :
              cl_data.rows[r][c].t \in {"num", "nan"}
    /\ cl_pc = "dropna" =>
          /\ Len(cl_data.rows) = Len(cl_raw.rows)
          /\ \A r \in 1..Len(cl_data.rows), c \in RequiredSet :
                IF C7_Convertible(cl_raw.rows[r][c])
                THEN cl_data.rows[r][c] = Num(C7_Value(cl_raw.rows[r][c]))
                ELSE cl_data.rows[r][c] = NaN
    /\ cl_pc = "done" =>
          LET kept == C7_Kept(cl_raw)
          IN  /\ Len(cl_data.rows) = Len(kept)
              /\ \A r \in 1..Len(kept), c \in RequiredSet :
                    cl_data.rows[r][c] = Num(C7_Value(kept[r][c]))
              /\ (/\ Cardinality({r \in 1..Len(cl_raw.rows) :
                                     ~C7_Convertible(cl_raw.rows[r]["Close"])}) = 1
                  /\ \A r \in 1..Len(cl_raw.rows), c \in RequiredSet \ {"Close"} :
                        C7_Convertible(cl_raw.rows[r][c]))
                 => Len(cl_data.rows) = Len(cl_raw.rows) - 1

\* Three records, the middle one with a non-numeric close: the other two remain,
\* in order.
C7_Witness ==
    /\ cl_pc = "done"
    /\ Len(cl_raw.rows) = 3
    /\ cl_raw.rows[2]["Close"].t = "str" /\ ~IsNumeral(cl_raw.rows[2]["Close"].s)
    /\ C7_RowConvertible(cl_raw.rows[1]) /\ C7_RowConvertible(cl_raw.rows[3])
    /\ cl_raw.rows[1]["Close"] /= cl_raw.rows[3]["Close"]
    /\ Len(cl_data.rows) = 2
    /\ cl_data.rows[1]["Close"] = cl_raw.rows[1]["Close"]
    /\ cl_data.rows[2]["Close"] = cl_raw.rows[3]["Close"]

RECURSIVE SumRange(_, _, _)
SumRange(seq, from, to) ==
    IF from > to THEN 0 ELSE seq[from] + SumRange(seq, from + 1, to)

\* C8: each of the two moving-average series has one value per cleaned record;
\* with positions counted from 1, the value at position i is the mean of the
\* closes at positions i-w+1..i when i >= w and undefined when i < w, also when
\* the two windows are equal.
C8_MovingAverages ==
    ro_pc = "done" =>
        \A k \in 1..2 :
            LET w == ro_windows[k]
                series == ro_values[k]
            IN  /\ Len(series) = Len(ro_close)
                /\ \A i \in 1..Len(series) :
                      IF i >= w
                      THEN series[i] = MeanOf(SumRange(ro_close, i - w + 1, i), w)
                      ELSE series[i].t = "nan"

\* Equal windows of 2 on four closes: undefined at the first position, the mean
\* of the first two closes at the second.
C8_Witness ==
    /\ ro_pc = "done"
    /\ ro_windows = <<2, 2>>
    /\ Len(ro_close) = 4
    /\ ro_close[1] /= ro_close[2]
    /\ ro_values[1][1].t = "nan"
    /\ ro_values[1][2] = MeanOf(ro_close[1] + ro_close[2], 2)
    /\ ro_values[2] = ro_values[1]

-----------------------------------------------------------------------------
(* The claims about one run, under Spec *)

HasError(e) == \E i \in 1..Len(errors) : errors[i] = e
HandlerRan == \E i \in 1..Len(errors) : errors[i].exc /= NoException
MainCharts == {i \in 1..Len(charts) : charts[i].chart = "main"}

\* The main chart section has ended (in its last statement, its else branch or
\* its handler).
AfterMain == pc \in {"fibo_inputs", "fibo_compute", "fibo_display", "done"}

\* The main chart section fetched a frame.
MainFetched == stock_data.columns /= {}

\* The Fibonacci inputs have been read.
InputsRead == low_price_input.t = "num"

\* C4: a compute function is invoked only when both inputs are positive; when
\* high <= 0 or low <= 0 no level set is computed or displayed and the run does
\* not end in an unhandled error.
C4_InsufficientInput ==
    /\ \A i \in 1..Len(compute_calls) :
          compute_calls[i].high > 0 /\ compute_calls[i].low > 0
    /\ (InputsRead /\ (high_price_input.v <= 0 \/ low_price_input.v <= 0)) =>
          /\ compute_calls = <<>>
          /\ displayed = <<>>
          /\ unhandled = NoException

\* C5: whatever the 1-month chart section and the main chart section meet (an
\* empty fetch, a raising fetch, missing columns, an error while the chart is
\* built), the run reaches the Fibonacci section with low, high and pivot
\* inputs defined: it does not end before they are read.
C5_ChartFailureNotFatal == pc = "crashed" => InputsRead

\* C6: when the cleaned series is empty or one of Open/High/Low/Close is absent,
\* an error is reported and st.plotly_chart is not called for the main chart,
\* whatever the horizontal-line inputs.
C6_NoChartWithoutData ==
    (AfterMain /\ MainFetched
       /\ (~HasRequiredColumns(stock_data) \/ stock_data.rows = <<>>)) =>
        /\ HasError(ErrNoColumns) \/ HandlerRan
        /\ MainCharts = {}

LargerWindow == IF sma_1 >= sma_2 THEN sma_1 ELSE sma_2

\* The cleaned series is not empty and shorter than the larger window.
TooFewRows ==
    /\ AfterMain /\ MainFetched /\ HasRequiredColumns(stock_data)
    /\ stock_data.rows /= <<>>
    /\ Len(stock_data.rows) < LargerWindow

AllUndefined(series) == \A i \in 1..Len(series) : series[i].t = "nan"

\* C9 as stated: with fewer rows than the larger window the run surfaces a
\* no-data state and renders no chart whose moving average is entirely
\* undefined.
C9_NoDataState ==
    TooFewRows =>
        /\ HasError(ErrNoColumns)
        /\ \A i \in MainCharts :
              ~AllUndefined(charts[i].sma_1_values) /\ ~AllUndefined(charts[i].sma_2_values)

\* C9 as amended: with fewer rows than the larger window no no-data state is
\* surfaced; the chart is rendered unless the charting library rejected a color
\* of a horizontal line (the handler then reports that error), and the moving
\* average of the larger window it is given has one value per cleaned record,
\* every one undefined.
C9_ChartWithUndefinedAverage ==
    TooFewRows =>
        /\ ~HasError(ErrNoColumns)
        /\ \A i \in 1..Len(errors) :
              errors[i].exc \in {NoException, "ValueError: color"}
        /\ (MainCharts /= {}) <=> ~HandlerRan
        /\ \A i \in MainCharts :
              LET larger == IF sma_1 >= sma_2 THEN charts[i].sma_1_values
                                              ELSE charts[i].sma_2_values
              IN  /\ Len(larger) = Len(stock_data.rows)
                  /\ charts[i].rows = Len(stock_data.rows)
                  /\ AllUndefined(larger)

\* One cleaned record, windows 1 and 2, the chart rendered.
C9_Witness ==
    /\ TooFewRows
    /\ Len(stock_data.rows) = 1 /\ sma_1 = 1 /\ sma_2 = 2
    /\ \E i \in MainCharts :
          /\ AllUndefined(charts[i].sma_2_values)
          /\ Len(charts[i].sma_2_values) = 1
          /\ ~AllUndefined(charts[i].sma_1_values)

UserColor == <<"r", "e", "d">>

\* The color line i (counted from 0) is to get.
ExpectedColor(i) ==
    IF i < n_user_colors THEN UserColor ELSE default_colors[(i % 5) + 1]

LinesParsed == pc \in {"main_traces", "main_plot"} \/ (AfterMain /\ sma_1 > 0)

\* C10: the warning is shown exactly when the number of parsed values differs
\* from the number of user colors; every line i then has a color (the user's
\* color i when i is below the number of user colors, else default palette
\* entry i mod 5), every trace built carries it, and the lookup never runs past
\* the end of the list; an unparsable value list gives no line and the error
\* message, and the chart is still rendered.
C10_LineColors ==
    /\ LinesParsed =>
          /\ (warnings /= <<>>) <=> (n_user_colors /= Len(horizontal_lines))
          /\ Len(warnings) <= 1
          /\ Len(horizontal_colors) >= Len(horizontal_lines)
          /\ \A i \in 0..(Len(horizontal_lines) - 1) :
                horizontal_colors[i + 1] = ExpectedColor(i)
          /\ \A i \in 0..(Len(horizontal_lines_traces) - 1) :
                /\ horizontal_lines_traces[i + 1].color = ExpectedColor(i)
                /\ horizontal_lines_traces[i + 1].y = horizontal_lines[i + 1]
          /\ pc = "main_plot" => Len(horizontal_lines_traces) = Len(horizontal_lines)
          /\ ~HasError(ErrFetching("IndexError: colors"))
          /\ HasError(ErrInvalidLines) => horizontal_lines = <<>>
    /\ (AfterMain /\ HasError(ErrInvalidLines)) =>
          /\ ~HandlerRan
          /\ \E i \in MainCharts : charts[i].lines = <<>>

\* Six lines and one user color: the sixth line gets the first palette entry.
C10_Witness ==
    /\ pc = "main_plot"
    /\ Len(horizontal_lines) = 6 /\ n_user_colors = 1
    /\ warnings /= <<>>
    /\ horizontal_lines_traces[1].color = UserColor
    /\ horizontal_lines_traces[2].color = default_colors[2]
    /\ horizontal_lines_traces[6].color = default_colors[1]

====
